---- MODULE Spec2Model ----
(***************************************************************************)
(* A model of the StateTest filler (ethereum_test_tools/spec/state_test.py)*)
(* : one scenario is compiled into a genesis header (make_genesis) and one *)
(* following block (make_blocks) by driving an external transition tool.   *)
(* The transition tool is opaque: each of its entry points either fails or *)
(* returns a value the model chooses from a small set.                     *)
(* A second part models the test generators of the DATAHASH filler        *)
(* (fillers/eips/eip4844/datahash_opcode.py), which build the scenarios.   *)
(***************************************************************************)
EXTENDS Integers, Sequences, FiniteSets, TLC

VARIABLES
    self,       \* the StateTest instance: env, pre, post, txs, config
    fork,       \* the fork argument of make_genesis / make_blocks
    method,     \* the method of the scenario that is running
    pc,         \* position of the scenario within the running method
    env,        \* the local variable env of the running method
    genesis,    \* the genesis header returned by make_genesis
    txs,        \* the local list of signed transactions of make_blocks
    t8n,        \* the transition tool: calls received, last input, traces
    out,        \* (alloc, result) returned by t8n.evaluate
    header,     \* the block header built by make_blocks
    built,      \* block encoding and engine payload of make_blocks
    ret,        \* what make_blocks returned to its caller
    exc,        \* the exception in flight: caught, printed traces, raised
    prior,      \* what an earlier run of the same scenario left, if any
    filler      \* the test generator of a filler module that is running

vars == <<self, fork, method, pc, env, genesis, txs, t8n, out, header, built, ret, exc, prior, filler>>

----------------------------------------------------------------------------
(* Bounds of the model *)

MaxTxs == 2
MaxNumber == 1

----------------------------------------------------------------------------
(* Python values *)

\* Python's None, and a present value, for every Optional of the code
None == <<>>
Some(v) == <<v>>

\* dict.get(key): the entry, or None when the key is absent
Get(d, k) == IF k \in DOMAIN d THEN d[k] ELSE None

\* d1 | d2: the union of two dicts, the right operand winning on shared keys
DictUnion(d1, d2) ==
    [k \in (DOMAIN d1) \cup (DOMAIN d2) |-> IF k \in DOMAIN d2 THEN d2[k] ELSE d1[k]]

\* the digits of a natural number in a base, most significant first
RECURSIVE Digits(_, _)
Digits(n, base) ==
    IF n < base THEN <<n>> ELSE Append(Digits(n \div base, base), n % base)

\* str(n) of an int: its decimal numeral
Str(n) == [base |-> 10, digits |-> Digits(n, 10)]

\* the "0x.." numerals of the tool's JSON output, zero-padded to two digits
Hex(n) == [base |-> 16, digits |-> IF n < 16 THEN <<0, n>> ELSE Digits(n, 16)]

\* int(s, 0): the number a numeral denotes
RECURSIVE DigitsValue(_, _)
DigitsValue(ds, base) ==
    IF ds = <<>> THEN 0
    ELSE DigitsValue(SubSeq(ds, 1, Len(ds) - 1), base) * base + ds[Len(ds)]

ParseNumber(s) == DigitsValue(s.digits, s.base)

\* str_or_none(value, default)
str_or_none(value, default) == IF value = None THEN default ELSE Some(Str(value[1]))

----------------------------------------------------------------------------
(* Values of ethereum_test_tools.common that state_test.py builds headers  *)
(* from                                                                    *)

\* Hash(0)
ZeroHash == <<"bytes", "0x0000000000000000000000000000000000000000000000000000000000000000">>
\* HeaderNonce(0)
ZeroNonce == <<"bytes", "0x0000000000000000">>
\* the empty-ommers hash: EmptyOmmersRoot, and the sha3Uncles literal
EmptyOmmersRoot == <<"bytes", "0x1dcc4de8dec75d7aab85b567b6ccd41ad312451b948a7413f0a142fd40d49347">>
EmptyTrieRoot == <<"bytes", "EmptyTrieRoot">>
\* Address(0), and the address a "0x.." string denotes
Address(a) == <<"address", a>>
ZeroAddress == Address("0x00")

Forks == {"Merge", "ShardingFork"}

\* the module-level Environment of the filler (datahash_opcode.py)
GlobalEnv ==
    [coinbase |-> "0x2adc25665018aa1fe0e6bc666dac8fc2697ff9ba",
     difficulty |-> Some(131072),
     gas_limit |-> 300000000,
     number |-> 1,
     timestamp |-> 1000,
     base_fee |-> None,
     data_gas_used |-> None,
     excess_data_gas |-> None,
     withdrawals |-> None,
     parent_excess_data_gas |-> None,
     parent_data_gas_used |-> None,
     parent_hash |-> None]

\* the environments a scenario is given: the global one, and its variants in
\* the fields the two methods branch on
Environments ==
    {[GlobalEnv EXCEPT !.number = n, !.difficulty = d, !.base_fee = f,
                       !.excess_data_gas = f, !.withdrawals = w] :
        n \in 0..MaxNumber, d \in {None, Some(131072)},
        f \in {None, Some(7)}, w \in {None, Some(<<>>)}}

\* Environment.set_fork_requirements(fork): a copy with the fork-conditional
\* gaps filled; fields that are set are kept
set_fork_requirements(e, f) ==
    IF f = "ShardingFork"
    THEN [e EXCEPT !.base_fee = IF @ = None THEN Some(0) ELSE @,
                   !.withdrawals = IF @ = None THEN Some(<<>>) ELSE @,
                   !.excess_data_gas =
                       IF @ = None /\ e.parent_excess_data_gas = None THEN Some(0) ELSE @]
    ELSE e

\* Environment.apply_new_parent(parent): a copy carrying the parent header's
\* excess data gas and hash forward
apply_new_parent(e, parent) ==
    [e EXCEPT !.parent_excess_data_gas = parent.excess_data_gas,
              !.parent_data_gas_used = parent.data_gas_used,
              !.parent_hash = parent.hash]

\* to_json(Alloc(pre)): the allocation in the JSON shape of the tool
to_json_alloc(pre) == [a \in DOMAIN pre |-> [balance |-> Hex(pre[a].balance)]]

\* FixtureHeader.build: the hash is a function of the header's fields alone,
\* the encoding of the fields and the three lists
HeaderFields(h) == [h EXCEPT !.hash = None]
HeaderHash(h) == <<"keccak", HeaderFields(h)>>
HeaderRlp(h, t, ommers, w) == <<"rlp", HeaderFields(h), t, ommers, w>>

\* the transition tool's pure entry points, for the inputs they are given
calc_state_root(alloc, f) == <<"state_root", alloc, f>>
calc_withdrawals_root(w, f) == <<"withdrawals_root", w, f>>

----------------------------------------------------------------------------
(* The scenario *)

TxTemplates == {"tx_a", "tx_b"}

RECURSIVE SeqsUpTo(_, _)
SeqsUpTo(S, n) ==
    IF n = 0 THEN {<<>>}
    ELSE LET shorter == SeqsUpTo(S, n - 1)
         IN shorter \cup {Append(q, x) : q \in {r \in shorter : Len(r) = n - 1}, x \in S}

\* self.txs: None, or a list of transactions
TxLists == {None} \cup {Some(q) : q \in SeqsUpTo(TxTemplates, MaxTxs)}

\* self.pre: the sender's account; self.post: a partial expectation
Pre == [A |-> [balance |-> 1000]]
Posts == {<<>>, [B |-> [balance |-> 100]]}

\* the error codes a scenario may expect of the engine API
EngineAPIErrors == {"InvalidRequest"}

Scenarios ==
    [env : Environments, pre : {Pre}, post : Posts, txs : TxLists,
     engine_api_error_code : {None} \cup {Some(c) : c \in EngineAPIErrors},
     disable_hive : BOOLEAN]

NoTool == [calls |-> <<>>, input |-> None, traces |-> <<>>, log |-> <<>>]
NoExc == [caught |-> None, printed |-> None, raised |-> None]
NoBuilt == [genesis_rlp |-> None, rlp |-> None, new_payload |-> None]

\* no generator of the filler module is running
NoFiller == [test |-> "none"]

Init ==
    /\ self \in Scenarios
    /\ fork \in Forks
    /\ method = "make_genesis"
    /\ pc = "make_genesis"
    /\ env = None
    /\ genesis = None
    /\ txs = None
    /\ t8n = NoTool
    /\ out = None
    /\ header = None
    /\ built = NoBuilt
    /\ ret = None
    /\ exc = NoExc
    /\ prior = None
    /\ filler = NoFiller

\* an exception leaves the running method for its caller
Raise(e) ==
    /\ pc' = "failed"
    /\ exc' = [exc EXCEPT !.raised = Some(e)]

ToolFailure(entry) == [kind |-> "tool_failure", detail |-> <<entry>>]

Called(entry) == [t8n EXCEPT !.calls = Append(@, entry)]

\* the tool's record of a call: what it was given and what it answered
\* (None when it failed)
Logged(tool, entry, input, outcome) ==
    [tool EXCEPT !.log = Append(@, [entry |-> entry, input |-> input, outcome |-> outcome])]

\* the tool is deterministic: a call it has answered in an earlier run of
\* the scenario is answered the same way again
Repeats(entry, input, outcome) ==
    IF prior = None THEN TRUE
    ELSE \A i \in DOMAIN prior[1].t8n.log :
            LET e == prior[1].t8n.log[i]
            IN (e.entry = entry /\ e.input = input) => e.outcome = outcome

----------------------------------------------------------------------------
(* make_genesis *)

\* a make_genesis that stores the fork-adjusted environment on the scenario
G_SetForkRequirements_InPlace ==
    /\ pc = "make_genesis"
    /\ self' = [self EXCEPT !.env = set_fork_requirements(self.env, fork)]
    /\ env' = Some(self'.env)
    /\ pc' = "g_state_root"
    /\ UNCHANGED <<filler, prior, fork, method, genesis, txs, t8n, out, header, built, ret, exc>>

\* line 61: env = self.env.set_fork_requirements(fork)
G_SetForkRequirements ==
    /\ pc = "make_genesis"
    /\ env' = Some(set_fork_requirements(self.env, fork))
    /\ pc' = "g_state_root"
    /\ UNCHANGED <<filler, prior, self, fork, method, genesis, txs, t8n, out, header, built, ret, exc>>

\* lines 67-72: the state root of the pre-state, asked of the tool
G_CalcStateRoot ==
    /\ pc = "g_state_root"
    /\ LET input == [alloc |-> to_json_alloc(self.pre), fork |-> fork]
           root == calc_state_root(input.alloc, input.fork)
       IN \/ /\ Repeats("calc_state_root", input, Some(root))
             /\ t8n' = Logged(Called("calc_state_root"), "calc_state_root", input, Some(root))
             /\ genesis' = Some([state_root |-> root])
             /\ pc' = "g_withdrawals_root"
             /\ UNCHANGED exc
          \/ /\ Repeats("calc_state_root", input, None)
             /\ t8n' = Logged(Called("calc_state_root"), "calc_state_root", input, None)
             /\ Raise(ToolFailure("calc_state_root"))
             /\ UNCHANGED genesis
    /\ UNCHANGED <<filler, prior, self, fork, method, env, txs, out, header, built, ret>>

\* lines 87-91: the withdrawals root, asked of the tool only when the
\* environment has withdrawals
G_CalcWithdrawalsRoot ==
    /\ pc = "g_withdrawals_root"
    /\ IF env[1].withdrawals = None
       THEN /\ genesis' = Some([state_root |-> genesis[1].state_root, withdrawals_root |-> None])
            /\ pc' = "g_header"
            /\ UNCHANGED <<t8n, exc>>
       ELSE LET input == [withdrawals |-> env[1].withdrawals[1], fork |-> fork]
                root == calc_withdrawals_root(input.withdrawals, input.fork)
            IN \/ /\ Repeats("calc_withdrawals_root", input, Some(root))
                  /\ t8n' = Logged(Called("calc_withdrawals_root"), "calc_withdrawals_root",
                                   input, Some(root))
                  /\ genesis' = Some([state_root |-> genesis[1].state_root,
                                      withdrawals_root |-> Some(root)])
                  /\ pc' = "g_header"
                  /\ UNCHANGED exc
               \/ /\ Repeats("calc_withdrawals_root", input, None)
                  /\ t8n' = Logged(Called("calc_withdrawals_root"), "calc_withdrawals_root",
                                   input, None)
                  /\ Raise(ToolFailure("calc_withdrawals_root"))
                  /\ UNCHANGED genesis
    /\ UNCHANGED <<filler, prior, self, fork, method, env, txs, out, header, built, ret>>

\* a genesis header numbered as the first test block
GenesisHeader_SameNumber(e, roots) ==
    [parent_hash |-> ZeroHash,
     ommers_hash |-> EmptyOmmersRoot,
     coinbase |-> ZeroAddress,
     state_root |-> roots.state_root,
     transactions_root |-> EmptyTrieRoot,
     receipt_root |-> EmptyTrieRoot,
     bloom |-> 0,
     difficulty |-> IF e.difficulty = None THEN 131072 ELSE e.difficulty[1],
     number |-> e.number,
     gas_limit |-> e.gas_limit,
     gas_used |-> 0,
     timestamp |-> 0,
     extra_data |-> <<"bytes", "0x00">>,
     mix_digest |-> ZeroHash,
     nonce |-> ZeroNonce,
     base_fee |-> e.base_fee,
     data_gas_used |-> e.data_gas_used,
     excess_data_gas |-> e.excess_data_gas,
     withdrawals_root |-> roots.withdrawals_root,
     hash |-> None]

\* lines 63-92: the genesis FixtureHeader
GenesisHeader(e, roots) ==
    [parent_hash |-> ZeroHash,
     ommers_hash |-> EmptyOmmersRoot,
     coinbase |-> ZeroAddress,
     state_root |-> roots.state_root,
     transactions_root |-> EmptyTrieRoot,
     receipt_root |-> EmptyTrieRoot,
     bloom |-> 0,
     difficulty |-> IF e.difficulty = None THEN 131072 ELSE e.difficulty[1],
     number |-> e.number - 1,
     gas_limit |-> e.gas_limit,
     gas_used |-> 0,
     timestamp |-> 0,
     extra_data |-> <<"bytes", "0x00">>,
     mix_digest |-> ZeroHash,
     nonce |-> ZeroNonce,
     base_fee |-> e.base_fee,
     data_gas_used |-> e.data_gas_used,
     excess_data_gas |-> e.excess_data_gas,
     withdrawals_root |-> roots.withdrawals_root,
     hash |-> None]

\* lines 63-100: the header is constructed, built and returned; a negative
\* block number has no canonical encoding, and build may then fail
G_Build ==
    /\ pc = "g_header"
    /\ LET h == GenesisHeader(env[1], genesis[1])
       IN \/ /\ genesis' = Some([h EXCEPT !.hash = Some(HeaderHash(h))])
             /\ built' = [built EXCEPT !.genesis_rlp = Some(HeaderRlp(h, <<>>, <<>>, env[1].withdrawals))]
             /\ pc' = "genesis_built"
             /\ UNCHANGED exc
          \/ /\ h.number < 0
             /\ Raise([kind |-> "encoding", detail |-> <<"number">>])
             /\ UNCHANGED <<genesis, built>>
    /\ UNCHANGED <<filler, prior, self, fork, method, env, txs, t8n, out, header, ret>>

----------------------------------------------------------------------------
(* make_blocks *)

\* Transaction.with_signature_and_sender(): the transaction with its sender
\* and signature, derived from the signing key
with_signature_and_sender(tx) ==
    [tx |-> tx, sender |-> "TestAddress", signature |-> <<"sig", tx, "TestPrivateKey">>]

\* a signing loop that stops one transaction short
SignedTxs_DropLast(list) ==
    IF list = None THEN <<>>
    ELSE [i \in 1..(Len(list[1]) - 1) |-> with_signature_and_sender(list[1][i])]

\* line 118: the signed form of self.txs, in order; [] when self.txs is None
SignedTxs(list) ==
    IF list = None THEN <<>>
    ELSE [i \in 1..Len(list[1]) |-> with_signature_and_sender(list[1][i])]

\* to_json of a value handed to the tool
to_json(v) == <<"json", v>>

\* fork.get_reward(number, timestamp)
get_reward(f, number, timestamp) == 0

\* a make_blocks that applies the parent to the scenario's environment itself
B_Env_InPlace ==
    /\ pc = "genesis_built"
    /\ self' = [self EXCEPT !.env = apply_new_parent(self.env, genesis[1])]
    /\ env' = Some(set_fork_requirements(self'.env, fork))
    /\ method' = "make_blocks"
    /\ pc' = "b_sign"
    /\ UNCHANGED <<filler, prior, fork, genesis, txs, t8n, out, header, built, ret, exc>>

\* line 115-116: the caller hands over the genesis header of make_genesis;
\* env is self.env with the parent applied and the fork's gaps filled
B_Env ==
    /\ pc = "genesis_built"
    /\ env' = Some(set_fork_requirements(apply_new_parent(self.env, genesis[1]), fork))
    /\ method' = "make_blocks"
    /\ pc' = "b_sign"
    /\ UNCHANGED <<filler, prior, self, fork, genesis, txs, t8n, out, header, built, ret, exc>>

\* line 118
B_Sign ==
    /\ pc = "b_sign"
    /\ txs' = Some(SignedTxs(self.txs))
    /\ pc' = "b_evaluate"
    /\ UNCHANGED <<filler, prior, self, fork, method, env, genesis, t8n, out, header, built, ret, exc>>

\* the shapes of the result dictionary the tool may return: "plain" has the
\* keys the tool computes, "extras" has in addition the header keys that
\* make_blocks sets itself, "bare" lacks the fork-conditional keys, and
\* "malformed" lacks a key every header needs
ResultShapes == {"plain", "extras", "bare", "malformed"}

ForkKeys == {"currentDifficulty", "currentBaseFee", "currentExcessDataGas", "withdrawalsRoot"}

ExtraKeys ==
    {"parentHash", "miner", "number", "gasLimit", "timestamp", "difficulty",
     "transactionsRoot", "baseFeePerGas", "excessDataGas", "sha3Uncles",
     "extraData", "mixHash", "nonce"}

\* the allocations the tool may return (JSON shape): the transfer to B made,
\* or not made
ToolAllocs ==
    {[a \in {"A", "B"} |-> [balance |-> Hex(IF a = "B" THEN b ELSE 1000 - b)]] : b \in {0, 100}}

\* the rejected lists the tool may report for n transactions: none, or one
\* index (0-based) with its error
RejectedLists(n) == {<<>>} \cup {<<[index |-> i, error |-> "nonce too low"]>> : i \in 0..(n - 1)}

\* every value the tool puts under a key of its result
ToolValue(k, alloc, rejected, parent, signed, f) ==
    CASE k = "stateRoot" -> calc_state_root(alloc, f)
      [] k = "txRoot" -> <<"tx_root", signed>>
      [] k = "receiptsRoot" -> <<"receipts_root", signed>>
      [] k = "logsBloom" -> Hex(0)
      [] k = "gasUsed" -> Hex(21000 * (Len(signed) - Len(rejected)))
      [] k = "rejected" -> rejected
      [] k = "currentDifficulty" -> Hex(2)
      [] k = "currentBaseFee" -> Hex(9)
      [] k = "currentExcessDataGas" -> Hex(5)
      [] k = "withdrawalsRoot" -> calc_withdrawals_root(<<>>, f)
      [] k = "parentHash" -> <<"keccak", [parent EXCEPT !.hash = None, !.gas_used = 1]>>
      [] k = "miner" -> "0x00000000000000000000000000000000000000ff"
      [] k = "number" -> Hex(77)
      [] k = "gasLimit" -> Hex(78)
      [] k = "timestamp" -> Hex(79)
      [] k = "difficulty" -> Hex(80)
      [] k = "transactionsRoot" -> <<"tx_root", <<>>, "other">>
      [] k = "baseFeePerGas" -> Hex(81)
      [] k = "excessDataGas" -> Hex(82)
      [] k = "sha3Uncles" -> "0xff"
      [] k = "extraData" -> "0xff"
      [] k = "mixHash" -> "0xff"
      [] k = "nonce" -> "0xff"

ComputedKeys == {"stateRoot", "txRoot", "receiptsRoot", "logsBloom", "gasUsed", "rejected"}

ResultKeys(shape) ==
    CASE shape = "plain" -> ComputedKeys \cup ForkKeys
      [] shape = "extras" -> ComputedKeys \cup ForkKeys \cup ExtraKeys
      [] shape = "bare" -> ComputedKeys
      [] shape = "malformed" -> (ComputedKeys \cup ForkKeys) \ {"gasUsed"}

ToolResult(shape, alloc, rejected, parent, signed, f) ==
    [k \in ResultKeys(shape) |-> Some(ToolValue(k, alloc, rejected, parent, signed, f))]

\* an evaluate that is called again after the tool failed
B_Evaluate_Retry ==
    /\ pc = "b_evaluate"
    /\ Len(t8n.calls) < 6
    /\ t8n' = Called("evaluate")
    /\ UNCHANGED <<filler, prior, self, fork, method, pc, env, genesis, txs, out, header, built, ret, exc>>

\* lines 120-128: the one call of t8n.evaluate; the tool fails, or returns
\* an allocation and a result, and keeps the traces of the run
B_Evaluate ==
    /\ pc = "b_evaluate"
    /\ LET input == [alloc |-> to_json_alloc(self.pre),
                     txs |-> to_json(txs[1]),
                     env |-> to_json(env[1]),
                     fork |-> fork,
                     chain_id |-> 1,
                     reward |-> get_reward(fork, env[1].number, env[1].timestamp),
                     eips |-> None]
           called == [Called("evaluate") EXCEPT !.input = Some(input)]
       IN \/ /\ Repeats("evaluate", input, None)
             /\ t8n' = Logged(called, "evaluate", input, None)
             /\ Raise(ToolFailure("evaluate"))
             /\ UNCHANGED out
          \/ \E alloc \in ToolAllocs, shape \in ResultShapes,
                rejected \in RejectedLists(Len(txs[1])) :
                LET returned == [alloc |-> alloc,
                                 result |-> ToolResult(shape, alloc, rejected, genesis[1],
                                                       txs[1], fork)]
                    answer == [alloc |-> alloc, shape |-> shape, rejected |-> rejected]
                IN /\ Repeats("evaluate", input, Some(answer))
                   /\ t8n' = Logged([called EXCEPT !.traces = Append(@, <<"trace", input.txs>>)],
                                    "evaluate", input, Some(answer))
                   /\ out' = Some(returned)
                   /\ pc' = "b_verify_txs"
                   /\ UNCHANGED exc
    /\ UNCHANGED <<filler, prior, self, fork, method, env, genesis, txs, header, built, ret>>

\* verify_transactions(txs, result): the indexes the tool rejected
verify_transactions(signed, result) ==
    [i \in 1..Len(result["rejected"][1]) |-> result["rejected"][1][i].index]

\* an acceptance check that lets rejected transactions through
B_VerifyTransactions_Tolerant ==
    /\ pc = "b_verify_txs"
    /\ pc' = "b_verify_post"
    /\ UNCHANGED <<filler, prior, self, fork, method, env, genesis, txs, t8n, out, header, built, ret, exc>>

\* an acceptance check that fetches the traces before it raises
B_VerifyTransactions_Traced ==
    /\ pc = "b_verify_txs"
    /\ LET rejected_txs == verify_transactions(txs[1], out[1].result)
       IN IF Len(rejected_txs) > 0
          THEN /\ t8n' = Called("get_traces")
               /\ pc' = "failed"
               /\ exc' = [exc EXCEPT !.printed = Some(t8n.traces),
                                     !.raised = Some([kind |-> "rejected_txs", detail |-> <<>>])]
          ELSE /\ pc' = "b_verify_post"
               /\ UNCHANGED <<t8n, exc>>
    /\ UNCHANGED <<filler, prior, self, fork, method, env, genesis, txs, out, header, built, ret>>

\* lines 130-137: any rejected transaction is an error of the scenario
B_VerifyTransactions ==
    /\ pc = "b_verify_txs"
    /\ LET rejected_txs == verify_transactions(txs[1], out[1].result)
       IN IF Len(rejected_txs) > 0
          THEN Raise([kind |-> "rejected_txs", detail |-> <<>>])
          ELSE /\ pc' = "b_verify_post"
               /\ UNCHANGED exc
    /\ UNCHANGED <<filler, prior, self, fork, method, env, genesis, txs, t8n, out, header, built, ret>>

\* verify_post_alloc(expected, actual): the addresses of the expected
\* mapping whose account is missing from, or differs in, the actual one
Mismatches(expected, actual) ==
    {a \in DOMAIN expected :
        \/ a \notin DOMAIN actual
        \/ ParseNumber(actual[a].balance) # expected[a].balance}

PostAllocError(expected, actual) ==
    LET a == CHOOSE x \in Mismatches(expected, actual) : TRUE
    IN [kind |-> "post_mismatch",
        detail |-> <<a, "balance", expected[a].balance,
                     IF a \in DOMAIN actual THEN ParseNumber(actual[a].balance) ELSE -1>>]

\* a make_blocks that builds the header without the verifier's verdict
B_VerifyPostAlloc_Unchecked ==
    /\ pc = "b_verify_post"
    /\ pc' = "b_header"
    /\ UNCHANGED <<filler, prior, self, fork, method, env, genesis, txs, t8n, out, header, built, ret, exc>>

\* lines 139-141: the post-state verifier; its error is caught
B_VerifyPostAlloc ==
    /\ pc = "b_verify_post"
    /\ IF Mismatches(self.post, out[1].alloc) = {}
       THEN /\ pc' = "b_header"
            /\ UNCHANGED exc
       ELSE /\ pc' = "b_traces"
            /\ exc' = [exc EXCEPT !.caught = Some(PostAllocError(self.post, out[1].alloc))]
    /\ UNCHANGED <<filler, prior, self, fork, method, env, genesis, txs, t8n, out, header, built, ret>>

\* an except clause that re-raises without consulting the tool
B_GetTraces_NotFetched ==
    /\ pc = "b_traces"
    /\ pc' = "b_reraise"
    /\ UNCHANGED <<filler, prior, self, fork, method, env, genesis, txs, t8n, out, header, built, ret, exc>>

\* line 142: print_traces(traces=t8n.get_traces())
B_GetTraces ==
    /\ pc = "b_traces"
    /\ t8n' = Called("get_traces")
    /\ exc' = [exc EXCEPT !.printed = Some(t8n.traces)]
    /\ pc' = "b_reraise"
    /\ UNCHANGED <<filler, prior, self, fork, method, env, genesis, txs, out, header, built, ret>>

\* an except clause that prints the traces and goes on
B_Reraise_Swallowed ==
    /\ pc = "b_reraise"
    /\ pc' = "b_header"
    /\ UNCHANGED <<filler, prior, self, fork, method, env, genesis, txs, t8n, out, header, built, ret, exc>>

\* line 143: raise e
B_Reraise ==
    /\ pc = "b_reraise"
    /\ Raise(exc.caught[1])
    /\ UNCHANGED <<filler, prior, self, fork, method, env, genesis, txs, t8n, out, header, built, ret>>

\* the entries of make_blocks, with one of them changed
Overrides(result, parent, e) ==
    [parentHash |-> parent.hash,
     miner |-> Some(e.coinbase),
     transactionsRoot |-> Get(result, "txRoot"),
     difficulty |-> str_or_none(e.difficulty, Get(result, "currentDifficulty")),
     number |-> Some(Str(e.number)),
     gasLimit |-> Some(Str(e.gas_limit)),
     timestamp |-> Some(Str(e.timestamp)),
     extraData |-> Some("0x00"),
     sha3Uncles |-> Some("0x1dcc4de8dec75d7aab85b567b6ccd41ad312451b948a7413f0a142fd40d49347"),
     mixHash |-> Some("0x0000000000000000000000000000000000000000000000000000000000000000"),
     nonce |-> Some("0x0000000000000000"),
     baseFeePerGas |-> Get(result, "currentBaseFee"),
     excessDataGas |-> Get(result, "currentExcessDataGas")]

\* a merge in which the tool's result wins on shared keys
HeaderDict_ResultWins(result, parent, e) ==
    DictUnion(Overrides(result, parent, e), result)

\* a merge that prefers the tool's difficulty to the environment's
HeaderDict_ToolDifficulty(result, parent, e) ==
    DictUnion(result,
        [Overrides(result, parent, e) EXCEPT
            !.difficulty = IF Get(result, "currentDifficulty") = None
                           THEN str_or_none(e.difficulty, None)
                           ELSE Get(result, "currentDifficulty")])

\* a merge that takes the base fee from the environment
HeaderDict_EnvBaseFee(result, parent, e) ==
    DictUnion(result,
        [Overrides(result, parent, e) EXCEPT
            !.baseFeePerGas = IF e.base_fee = None THEN None ELSE Some(Str(e.base_fee[1]))])

\* lines 146-161: the dictionary the header is made from; the entries of
\* make_blocks win over the entries of the tool's result
HeaderDict(result, parent, e) ==
    DictUnion(result,
        [parentHash |-> parent.hash,
         miner |-> Some(e.coinbase),
         transactionsRoot |-> Get(result, "txRoot"),
         difficulty |-> str_or_none(e.difficulty, Get(result, "currentDifficulty")),
         number |-> Some(Str(e.number)),
         gasLimit |-> Some(Str(e.gas_limit)),
         timestamp |-> Some(Str(e.timestamp)),
         extraData |-> Some("0x00"),
         sha3Uncles |-> Some("0x1dcc4de8dec75d7aab85b567b6ccd41ad312451b948a7413f0a142fd40d49347"),
         mixHash |-> Some("0x0000000000000000000000000000000000000000000000000000000000000000"),
         nonce |-> Some("0x0000000000000000"),
         baseFeePerGas |-> Get(result, "currentBaseFee"),
         excessDataGas |-> Get(result, "currentExcessDataGas")])

RequiredKeys ==
    {"parentHash", "sha3Uncles", "miner", "stateRoot", "transactionsRoot", "receiptsRoot",
     "logsBloom", "difficulty", "number", "gasLimit", "gasUsed", "timestamp", "extraData",
     "mixHash", "nonce"}

\* an optional number of the dictionary
NumberOrNone(v) == IF v = None THEN None ELSE Some(ParseNumber(v[1]))

\* FixtureHeader.from_dict: every field cast from the dictionary's entry
from_dict(d) ==
    [parent_hash |-> d["parentHash"][1],
     ommers_hash |-> <<"bytes", d["sha3Uncles"][1]>>,
     coinbase |-> Address(d["miner"][1]),
     state_root |-> d["stateRoot"][1],
     transactions_root |-> d["transactionsRoot"][1],
     receipt_root |-> d["receiptsRoot"][1],
     bloom |-> ParseNumber(d["logsBloom"][1]),
     difficulty |-> ParseNumber(d["difficulty"][1]),
     number |-> ParseNumber(d["number"][1]),
     gas_limit |-> ParseNumber(d["gasLimit"][1]),
     gas_used |-> ParseNumber(d["gasUsed"][1]),
     timestamp |-> ParseNumber(d["timestamp"][1]),
     extra_data |-> <<"bytes", d["extraData"][1]>>,
     mix_digest |-> <<"bytes", d["mixHash"][1]>>,
     nonce |-> <<"bytes", d["nonce"][1]>>,
     base_fee |-> NumberOrNone(Get(d, "baseFeePerGas")),
     data_gas_used |-> NumberOrNone(Get(d, "dataGasUsed")),
     excess_data_gas |-> NumberOrNone(Get(d, "excessDataGas")),
     withdrawals_root |-> Get(d, "withdrawalsRoot"),
     hash |-> None]

\* lines 145-162: the header, from the result and the environment; a
\* dictionary without a required entry is an error
B_Header ==
    /\ pc = "b_header"
    /\ LET d == HeaderDict(out[1].result, genesis[1], env[1])
       IN IF \E k \in RequiredKeys : Get(d, k) = None
          THEN /\ Raise([kind |-> "malformed_header", detail |-> <<>>])
               /\ UNCHANGED header
          ELSE /\ header' = Some(from_dict(d))
               /\ pc' = "b_build"
               /\ UNCHANGED exc
    /\ UNCHANGED <<filler, prior, self, fork, method, env, genesis, txs, t8n, out, built, ret>>

\* lines 164-168: block, header.hash = header.build(...)
B_Build ==
    /\ pc = "b_build"
    /\ built' = [built EXCEPT !.rlp = Some(HeaderRlp(header[1], txs[1], <<>>, env[1].withdrawals))]
    /\ header' = Some([header[1] EXCEPT !.hash = Some(HeaderHash(header[1]))])
    /\ pc' = "b_payload"
    /\ UNCHANGED <<filler, prior, self, fork, method, env, genesis, txs, t8n, out, ret, exc>>

\* FixtureEngineNewPayload.from_fixture_header
from_fixture_header(f, h, transactions, withdrawals, error_code) ==
    [fork |-> f, header |-> h, transactions |-> transactions,
     withdrawals |-> withdrawals, error_code |-> error_code]

\* a payload made when hive is disabled, and only then
B_NewPayload_Inverted ==
    /\ pc = "b_payload"
    /\ built' = [built EXCEPT !.new_payload =
                    IF self.disable_hive
                    THEN Some(from_fixture_header(fork, header[1], txs[1], env[1].withdrawals,
                                                  self.engine_api_error_code))
                    ELSE None]
    /\ pc' = "b_return"
    /\ UNCHANGED <<filler, prior, self, fork, method, env, genesis, txs, t8n, out, header, ret, exc>>

\* lines 170-178: the engine payload, unless hive is disabled
B_NewPayload ==
    /\ pc = "b_payload"
    /\ built' = [built EXCEPT !.new_payload =
                    IF ~self.disable_hive
                    THEN Some(from_fixture_header(fork, header[1], txs[1], env[1].withdrawals,
                                                  self.engine_api_error_code))
                    ELSE None]
    /\ pc' = "b_return"
    /\ UNCHANGED <<filler, prior, self, fork, method, env, genesis, txs, t8n, out, header, ret, exc>>

\* lines 180-193: the one FixtureBlock, the header's hash and the allocation
B_Return ==
    /\ pc = "b_return"
    /\ ret' = Some([blocks |-> <<[rlp |-> built.rlp[1],
                                 new_payload |-> built.new_payload,
                                 block_header |-> header[1],
                                 txs |-> txs[1],
                                 ommers |-> <<>>,
                                 withdrawals |-> env[1].withdrawals]>>,
                    hash |-> header[1].hash,
                    alloc |-> out[1].alloc])
    /\ pc' = "done"
    /\ UNCHANGED <<filler, prior, self, fork, method, env, genesis, txs, t8n, out, header, built, exc>>

----------------------------------------------------------------------------

Next ==
    \/ G_SetForkRequirements
    \/ G_CalcStateRoot
    \/ G_CalcWithdrawalsRoot
    \/ G_Build
    \/ B_Env
    \/ B_Sign
    \/ B_Evaluate
    \/ B_VerifyTransactions
    \/ B_VerifyPostAlloc
    \/ B_GetTraces
    \/ B_Reraise
    \/ B_Header
    \/ B_Build
    \/ B_NewPayload
    \/ B_Return

Spec == Init /\ [][Next]_vars

----------------------------------------------------------------------------
(* The same scenario, run a second time *)

\* what a finished run leaves behind
Outcome ==
    [pc |-> pc, genesis |-> genesis, built |-> built, ret |-> ret,
     raised |-> exc.raised, t8n |-> t8n]

\* the scenario is run again from the start, on the same StateTest and fork,
\* against the same tool
Rerun ==
    /\ pc \in {"done", "failed"}
    /\ prior = None
    /\ prior' = Some(Outcome)
    /\ method' = "make_genesis"
    /\ pc' = "make_genesis"
    /\ env' = None
    /\ genesis' = None
    /\ txs' = None
    /\ t8n' = NoTool
    /\ out' = None
    /\ header' = None
    /\ built' = NoBuilt
    /\ ret' = None
    /\ exc' = NoExc
    /\ UNCHANGED <<filler, self, fork>>

\* the scenarios run twice: those whose genesis header has an encoding, with
\* the engine payload, expecting no engine error
InitTwice ==
    /\ Init
    /\ self.env.number >= 1
    /\ ~self.disable_hive
    /\ self.engine_api_error_code = None

NextTwice ==
    \/ Next
    \/ Rerun

SpecTwice == InitTwice /\ [][NextTwice]_vars

----------------------------------------------------------------------------
(* The test generators of fillers/eips/eip4844/datahash_opcode.py and the  *)
(* fixture of tests/cancun/eip4844_blobs/conftest.py                       *)

MAX_BLOB_PER_BLOCK == 4
TOTAL_BLOCKS == 10
BLOB_TX_TYPE == 5
BLOB_COMMITMENT_VERSION_KZG == 1

\* len(datahash_index_measures) of test_datahash_gas_cost
GasMeasures == 6

\* the number of pre-states, tags and transactions of
\* test_datahash_opcode_contexts
Contexts == 12

TestAddress == <<"TestAddress">>
to_address(n) == <<"to_address", n>>

\* to_hash_bytes(n): a 32-byte big-endian value, kept as its first byte and
\* the rest; for the small numbers of the fillers the first byte is zero
to_hash_bytes(n) == [version |-> 0, rest |-> n]

\* add_kzg_version(hashes, version): every hash with its first byte replaced
add_kzg_version(hashes, version) ==
    [k \in DOMAIN hashes |-> [version |-> version, rest |-> hashes[k].rest]]

\* the list of versioned hashes ethereum_test_tools exports
BlobVersionedHashes ==
    add_kzg_version([k \in 1..MAX_BLOB_PER_BLOCK |-> to_hash_bytes(k)],
                    BLOB_COMMITMENT_VERSION_KZG)

\* list[i] and list[lo:hi] of Python, on a 1-based sequence
Item(list, i) == list[i + 1]
Slice(list, lo, hi) ==
    LET h == IF hi > Len(list) THEN Len(list) ELSE hi
    IN IF h <= lo THEN <<>> ELSE SubSeq(list, lo + 1, h)

\* d[k] = v on a dict
SetItem(d, k, v) == [x \in (DOMAIN d) \cup {k} |-> IF x = k THEN v ELSE d[x]]

\* the fields of a Transaction the fillers set; a field not given is None
TxFields ==
    {"ty", "nonce", "to", "gas_price", "max_fee_per_gas",
     "max_priority_fee_per_gas", "max_fee_per_data_gas", "access_list",
     "blob_versioned_hashes"}
NoFields == [f \in TxFields |-> None]

\* the keyword arguments of a call, each value given
Given(kwargs) == [f \in DOMAIN kwargs |-> Some(kwargs[f])]

\* Transaction(**kwargs): the fields as given
Transaction(kwargs) == DictUnion(NoFields, Given(kwargs))

\* tx.with_fields(**overrides): a new transaction, the named fields replaced
with_fields(tx, overrides) == DictUnion(tx, Given(overrides))

\* the fields the declared type requires
RequiredFields(ty) ==
    IF ty = Some(0) THEN {"gas_price"}
    ELSE IF ty = Some(1) THEN {"gas_price", "access_list"}
    ELSE IF ty = Some(2) THEN {"max_fee_per_gas", "max_priority_fee_per_gas"}
    ELSE IF ty = Some(BLOB_TX_TYPE)
         THEN {"max_fee_per_gas", "max_priority_fee_per_gas",
               "max_fee_per_data_gas", "blob_versioned_hashes"}
    ELSE {}

\* the constructor's check: a required field of the declared type is
\* missing, or an entry of blob_versioned_hashes has another version byte
Malformed(tx) ==
    \/ \E f \in RequiredFields(tx.ty) : tx[f] = None
    \/ /\ tx.blob_versioned_hashes # None
       /\ \E k \in DOMAIN tx.blob_versioned_hashes[1] :
              tx.blob_versioned_hashes[1][k].version # BLOB_COMMITMENT_VERSION_KZG

\* the statements of a generator, in the order they run, loops unrolled
Dict(name, init) == [op |-> "dict", name |-> name, init |-> init]
Alias(name, of) == [op |-> "alias", name |-> name, of |-> of]
Store(name, key, value) == [op |-> "setitem", name |-> name, key |-> key, value |-> value]
Template(kwargs) == [op |-> "template", kwargs |-> kwargs]
Construct(kwargs) == [op |-> "construct", kwargs |-> kwargs]
WithFields(overrides) == [op |-> "with_fields", overrides |-> overrides]
Yield(kind, tag, pre) == [op |-> "yield", kind |-> kind, tag |-> tag, pre |-> pre]

\* for i in range(n): body(i), given the n bodies in order
RECURSIVE Loop(_)
Loop(bodies) == IF Len(bodies) = 0 THEN <<>> ELSE Head(bodies) \o Loop(Tail(bodies))

\* {TestAddress: Account(balance=...)}
Balance == SetItem(<<>>, TestAddress, "balance")
BlockAddress(i) == to_address(256 + i * 256)

\* lines 190-418
ContextTags ==
    <<"at_top_level_call_stack", "max_value", "on_call", "on_delegatecall",
      "on_staticcall", "on_callcode", "on_initcode", "on_create", "on_create2",
      "tx_type_2", "tx_type_1", "tx_type_0">>
b_hashes == [k \in 1..MAX_BLOB_PER_BLOCK |-> to_hash_bytes(2 ^ (k - 1))]
ContextTx(k) ==
    IF k = 0 THEN WithFields([to |-> to_address(256), blob_versioned_hashes |-> Slice(b_hashes, 0, 1)])
    ELSE IF k = 2 THEN WithFields([to |-> to_address(512), blob_versioned_hashes |-> Slice(b_hashes, 0, 2)])
    ELSE IF k = 6 THEN WithFields([to |-> None])
    ELSE IF k < 9 THEN WithFields([to |-> to_address(256 * (k + 1))])
    ELSE IF k = 9
         THEN Construct([ty |-> 2, to |-> to_address(256), max_fee_per_gas |-> 10,
                         max_priority_fee_per_gas |-> 10, access_list |-> <<>>])
    ELSE IF k = 10
         THEN Construct([ty |-> 1, to |-> to_address(256), gas_price |-> 10,
                         access_list |-> <<>>])
    ELSE Construct([ty |-> 0, to |-> to_address(256), gas_price |-> 10])
ContextPre(k) == << Dict(<<"pre_states", k>>, SetItem(<<>>, to_address(256), "datahash_sstore_bytecode")) >>
ContextTxs(k) == << ContextTx(k) >>
ContextYield(k) ==
    << Alias(<<"pre">>, <<"pre_states", k>>),
       Store(<<"pre">>, TestAddress, "balance"),
       Yield("StateTest", ContextTags[k + 1], <<"pre">>) >>
test_datahash_opcode_contexts ==
    Loop([i \in 1..Contexts |-> ContextPre(i - 1)])
    \o << Template([ty |-> BLOB_TX_TYPE, max_fee_per_gas |-> 10, max_priority_fee_per_gas |-> 10,
                    max_fee_per_data_gas |-> 10, access_list |-> <<>>,
                    blob_versioned_hashes |-> b_hashes]) >>
    \o Loop([i \in 1..Contexts |-> ContextTxs(i - 1)])
    \o Loop([i \in 1..Contexts |-> ContextYield(i - 1)])

\* lines 422-510
GasCostBody(i) ==
    << Store(<<"pre">>, BlockAddress(i), "gas_measure"),
       WithFields([ty |-> 0, to |-> BlockAddress(i), nonce |-> i, gas_price |-> 10]),
       WithFields([ty |-> 1, to |-> BlockAddress(i), nonce |-> i, gas_price |-> 10]),
       WithFields([ty |-> 2, to |-> BlockAddress(i), nonce |-> i, max_priority_fee_per_gas |-> 10,
                   blob_versioned_hashes |-> << Item(BlobVersionedHashes, i % MAX_BLOB_PER_BLOCK) >>]),
       WithFields([ty |-> BLOB_TX_TYPE, to |-> BlockAddress(i), nonce |-> i,
                   max_priority_fee_per_gas |-> 10,
                   blob_versioned_hashes |-> << Item(BlobVersionedHashes, i % MAX_BLOB_PER_BLOCK) >>]) >>
test_datahash_gas_cost ==
    << Dict(<<"pre">>, Balance),
       Template([max_fee_per_gas |-> 10, max_fee_per_data_gas |-> 10]) >>
    \o Loop([i \in 1..GasMeasures |-> GasCostBody(i - 1)])
    \o << Yield("StateTest", "tx_type_0", <<"pre">>),
          Yield("StateTest", "tx_type_1", <<"pre">>),
          Yield("StateTest", "tx_type_2", <<"pre">>),
          Yield("BlockchainTest", "tx_type_5", <<"pre">>) >>

\* lines 514-640
VersionedHashBody(i) ==
    << Store(<<"pre_single_valid_calls">>, BlockAddress(i), "datahash_single_valid_calls"),
       Store(<<"pre_datahash_repeated_valid_calls">>, BlockAddress(i), "datahash_repeated_valid_calls"),
       Store(<<"pre_datahash_valid_invalid_calls">>, BlockAddress(i), "datahash_valid_invalid_calls"),
       Store(<<"pre_datahash_varied_valid_calls">>, BlockAddress(i), "datahash_varied_valid_calls"),
       Construct([ty |-> BLOB_TX_TYPE, nonce |-> i, to |-> BlockAddress(i), max_fee_per_gas |-> 10,
                  max_priority_fee_per_gas |-> 10, max_fee_per_data_gas |-> 10,
                  access_list |-> <<>>,
                  blob_versioned_hashes |->
                      [k \in 1..MAX_BLOB_PER_BLOCK |->
                          Item(BlobVersionedHashes,
                               (i * MAX_BLOB_PER_BLOCK + k - 1) % Len(BlobVersionedHashes))]]) >>
test_datahash_blob_versioned_hash ==
    << Dict(<<"pre">>, Balance),
       Alias(<<"pre_single_valid_calls">>, <<"pre">>),
       Alias(<<"pre_datahash_repeated_valid_calls">>, <<"pre">>),
       Alias(<<"pre_datahash_valid_invalid_calls">>, <<"pre">>),
       Alias(<<"pre_datahash_varied_valid_calls">>, <<"pre">>) >>
    \o Loop([i \in 1..TOTAL_BLOCKS |-> VersionedHashBody(i - 1)])
    \o << Yield("BlockchainTest", "valid_calls", <<"pre_single_valid_calls">>),
          Yield("BlockchainTest", "repeated_calls", <<"pre_datahash_repeated_valid_calls">>),
          Yield("BlockchainTest", "valid_invalid_calls", <<"pre_datahash_valid_invalid_calls">>),
          Yield("BlockchainTest", "varied_valid_calls", <<"pre_datahash_varied_valid_calls">>) >>

\* lines 644-707
InvalidIndexBody(i) ==
    << Store(<<"pre">>, BlockAddress(i), "datahash_invalid_calls"),
       Construct([ty |-> BLOB_TX_TYPE, nonce |-> i, to |-> BlockAddress(i), max_fee_per_gas |-> 10,
                  max_priority_fee_per_gas |-> 10, max_fee_per_data_gas |-> 10,
                  access_list |-> <<>>,
                  blob_versioned_hashes |->
                      [blob \in 1..(i % MAX_BLOB_PER_BLOCK) |-> Item(BlobVersionedHashes, blob - 1)]]) >>
test_datahash_invalid_blob_index ==
    << Dict(<<"pre">>, Balance) >>
    \o Loop([i \in 1..TOTAL_BLOCKS |-> InvalidIndexBody(i - 1)])
    \o << Yield("BlockchainTest", "", <<"pre">>) >>

\* lines 711-773
test_datahash_multiple_txs_in_block ==
    << Dict(<<"pre">>, SetItem(SetItem(Balance, to_address(256), "datahash_valid_call"),
                               to_address(512), "datahash_valid_call")),
       Template([max_fee_per_gas |-> 10, max_priority_fee_per_gas |-> 10,
                 max_fee_per_data_gas |-> 10, access_list |-> <<>>,
                 blob_versioned_hashes |-> Slice(BlobVersionedHashes, 0, MAX_BLOB_PER_BLOCK)]),
       WithFields([ty |-> BLOB_TX_TYPE, nonce |-> 0, to |-> to_address(256)]),
       WithFields([ty |-> 2, nonce |-> 1, to |-> to_address(256)]),
       WithFields([ty |-> 2, nonce |-> 2, to |-> to_address(512)]),
       WithFields([ty |-> BLOB_TX_TYPE, nonce |-> 3, to |-> to_address(512)]),
       Yield("BlockchainTest", "", <<"pre">>) >>

\* conftest.py lines 38-64: no block for no parent blobs
non_zero_data_gas_used_genesis_block(parent_blobs) ==
    IF parent_blobs = 0 THEN <<>>
    ELSE << Construct([ty |-> BLOB_TX_TYPE, nonce |-> 0, to |-> to_address(512),
                       max_fee_per_gas |-> 7, max_priority_fee_per_gas |-> 0,
                       max_fee_per_data_gas |-> 1, access_list |-> <<>>,
                       blob_versioned_hashes |->
                           add_kzg_version([x \in 1..parent_blobs |-> to_hash_bytes(x - 1)],
                                           BLOB_COMMITMENT_VERSION_KZG)]) >>

Generators ==
    {"test_datahash_opcode_contexts", "test_datahash_gas_cost",
     "test_datahash_blob_versioned_hash", "test_datahash_invalid_blob_index",
     "test_datahash_multiple_txs_in_block", "non_zero_data_gas_used_genesis_block"}

Program(test, parent_blobs) ==
    IF test = "test_datahash_opcode_contexts" THEN test_datahash_opcode_contexts
    ELSE IF test = "test_datahash_gas_cost" THEN test_datahash_gas_cost
    ELSE IF test = "test_datahash_blob_versioned_hash" THEN test_datahash_blob_versioned_hash
    ELSE IF test = "test_datahash_invalid_blob_index" THEN test_datahash_invalid_blob_index
    ELSE IF test = "test_datahash_multiple_txs_in_block" THEN test_datahash_multiple_txs_in_block
    ELSE non_zero_data_gas_used_genesis_block(parent_blobs)

\* a generator about to run its first statement: no name bound, no dict
\* allocated, nothing built or yielded
Started(test, parent_blobs) ==
    [test |-> test, parent_blobs |-> parent_blobs, at |-> 1,
     names |-> <<>>, heap |-> <<>>, tx |-> None, txs |-> <<>>,
     yielded |-> <<>>, raised |-> None]

\* the statement the generator is at
Running == filler.test \in Generators /\ filler.raised = None
Statements == Program(filler.test, filler.parent_blobs)
AtStatement(op) ==
    /\ Running
    /\ filler.at <= Len(Statements)
    /\ Statements[filler.at].op = op
Statement == Statements[filler.at]

\* the dict a name refers to
Deref(f, name) == f.heap[f.names[name]]

\* name = {...}: a new dict, the name bound to it
F_Dict ==
    /\ AtStatement("dict")
    /\ filler' = [filler EXCEPT !.heap = Append(@, Statement.init),
                                !.names = SetItem(@, Statement.name, Len(filler.heap) + 1),
                                !.at = @ + 1]
    /\ UNCHANGED <<self, fork, method, pc, env, genesis, txs, t8n, out, header, built, ret, exc, prior>>

\* name = other: the name bound to the dict the other name refers to
F_Alias ==
    /\ AtStatement("alias")
    /\ filler' = [filler EXCEPT !.names = SetItem(@, Statement.name, filler.names[Statement.of]),
                                !.at = @ + 1]
    /\ UNCHANGED <<self, fork, method, pc, env, genesis, txs, t8n, out, header, built, ret, exc, prior>>

\* name[key] = value: a write to the dict the name refers to
F_SetItem ==
    /\ AtStatement("setitem")
    /\ filler' = [filler EXCEPT !.heap[filler.names[Statement.name]] =
                                    SetItem(@, Statement.key, Statement.value),
                                !.at = @ + 1]
    /\ UNCHANGED <<self, fork, method, pc, env, genesis, txs, t8n, out, header, built, ret, exc, prior>>

\* tx = Transaction(...): the template of the generator
F_Template ==
    /\ AtStatement("template")
    /\ LET tx == Transaction(Statement.kwargs)
       IN filler' = IF Malformed(tx)
                    THEN [filler EXCEPT !.raised = Some("ValueError")]
                    ELSE [filler EXCEPT !.tx = Some(tx), !.at = @ + 1]
    /\ UNCHANGED <<self, fork, method, pc, env, genesis, txs, t8n, out, header, built, ret, exc, prior>>

\* Transaction(...) in a list of transactions
F_Construct ==
    /\ AtStatement("construct")
    /\ LET tx == Transaction(Statement.kwargs)
       IN filler' = IF Malformed(tx)
                    THEN [filler EXCEPT !.raised = Some("ValueError")]
                    ELSE [filler EXCEPT !.txs = Append(@, tx), !.at = @ + 1]
    /\ UNCHANGED <<self, fork, method, pc, env, genesis, txs, t8n, out, header, built, ret, exc, prior>>

\* tx.with_fields(...) in a list of transactions: a new transaction, which
\* the constructor's check may or may not be applied to
F_WithFields ==
    /\ AtStatement("with_fields")
    /\ \E checked \in BOOLEAN :
          LET tx == with_fields(filler.tx[1], Statement.overrides)
          IN filler' = IF checked /\ Malformed(tx)
                       THEN [filler EXCEPT !.raised = Some("ValueError")]
                       ELSE [filler EXCEPT !.txs = Append(@, tx), !.at = @ + 1]
    /\ UNCHANGED <<self, fork, method, pc, env, genesis, txs, t8n, out, header, built, ret, exc, prior>>

\* yield StateTest(pre=name, ...) or BlockchainTest(pre=name, ...): the
\* scenario is handed the dict the name refers to and is filled before the
\* generator runs on
F_Yield ==
    /\ AtStatement("yield")
    /\ filler' = [filler EXCEPT !.yielded =
                                    Append(@, [kind |-> Statement.kind, tag |-> Statement.tag,
                                               pre |-> Deref(filler, Statement.pre)]),
                                !.at = @ + 1]
    /\ UNCHANGED <<self, fork, method, pc, env, genesis, txs, t8n, out, header, built, ret, exc, prior>>

\* one generator of the filler module, or the fixture for a number of
\* parent blobs, is run; no scenario is being filled meanwhile
InitFiller ==
    /\ \E test \in Generators :
          \E parent_blobs \in 0..MAX_BLOB_PER_BLOCK :
              /\ (test # "non_zero_data_gas_used_genesis_block" => parent_blobs = 0)
              /\ filler = Started(test, parent_blobs)
    /\ self = [env |-> GlobalEnv, pre |-> Pre, post |-> <<>>, txs |-> None,
               engine_api_error_code |-> None, disable_hive |-> FALSE]
    /\ fork = "ShardingFork"
    /\ method = "make_genesis"
    /\ pc = "make_genesis"
    /\ env = None
    /\ genesis = None
    /\ txs = None
    /\ t8n = NoTool
    /\ out = None
    /\ header = None
    /\ built = NoBuilt
    /\ ret = None
    /\ exc = NoExc
    /\ prior = None

NextFiller ==
    \/ F_Dict
    \/ F_Alias
    \/ F_SetItem
    \/ F_Template
    \/ F_Construct
    \/ F_WithFields
    \/ F_Yield

SpecFiller == InitFiller /\ [][NextFiller]_vars

----------------------------------------------------------------------------
(* Properties *)

\* how often an entry point of the tool was called
Calls(entry) == Cardinality({i \in DOMAIN t8n.calls : t8n.calls[i] = entry})

\* make_genesis has returned its header
GenesisBuilt == genesis # None /\ "hash" \in DOMAIN genesis[1]

\* the tool's result marks at least one transaction as rejected
SomeRejected == out # None /\ Len(verify_transactions(txs[1], out[1].result)) > 0

\* the post-state verifier would raise on the tool's allocation
PostMismatch == out # None /\ Mismatches(self.post, out[1].alloc) # {}

\* C1: once the tool's result marks a transaction as rejected, make_blocks
\* does nothing but raise the rejection error: it never reaches the
\* post-state verifier, catches no verifier error, builds no header and
\* returns no block, whatever the expected post-state is.
C1_RejectedTxIsHardError ==
    (SomeRejected /\ pc # "b_verify_txs") =>
        /\ pc = "failed"
        /\ exc.raised = Some([kind |-> "rejected_txs", detail |-> <<>>])
        /\ exc.caught = None
        /\ header = None
        /\ ret = None

\* a rejected transaction has made make_blocks raise although the expected
\* post-state is not empty and matches the tool's allocation
C1_Witness ==
    /\ pc = "failed"
    /\ SomeRejected
    /\ DOMAIN self.post # {}
    /\ ~PostMismatch

\* C2: when verify_post_alloc raises, nothing of the block is produced, the
\* error that reaches the caller is the one verify_post_alloc raised, and the
\* traces were fetched before; and make_blocks returns a block only when the
\* acceptance check and the post-state verifier both passed.
C2_VerifierErrorReraised ==
    /\ exc.caught # None =>
          /\ pc \in {"b_traces", "b_reraise", "failed"}
          /\ header = None
          /\ built.rlp = None
          /\ built.new_payload = None
          /\ ret = None
    /\ (exc.caught # None /\ pc = "failed") =>
          /\ exc.raised = exc.caught
          /\ exc.printed = Some(t8n.traces)
          /\ t8n.calls[Len(t8n.calls)] = "get_traces"
    /\ ret # None =>
          /\ pc = "done"
          /\ exc.raised = None
          /\ ~SomeRejected
          /\ ~PostMismatch
          /\ Len(ret[1].blocks) = 1
          /\ ret[1].alloc = out[1].alloc
    /\ pc = "failed" => ret = None

\* the post-state verifier has raised and its error has reached the caller
C2_Witness ==
    /\ pc = "failed"
    /\ exc.caught # None
    /\ exc.raised[1].kind = "post_mismatch"

\* C3: the block header's parent_hash is the hash make_genesis computed for
\* the genesis header, also when the tool's result has a parentHash key, and
\* the hash make_blocks returns is the hash stored on the block's header.
C3_ChainLinkage ==
    /\ header # None =>
          /\ GenesisBuilt
          /\ genesis[1].hash = Some(HeaderHash(genesis[1]))
          /\ header[1].parent_hash = genesis[1].hash[1]
    /\ ret # None =>
          /\ ret[1].blocks[1].block_header.parent_hash = genesis[1].hash[1]
          /\ ret[1].hash # None
          /\ ret[1].hash = ret[1].blocks[1].block_header.hash
          /\ ret[1].hash = Some(HeaderHash(ret[1].blocks[1].block_header))

\* a block was returned for a tool result that has its own parentHash
C3_Witness ==
    /\ ret # None
    /\ "parentHash" \in DOMAIN out[1].result
    /\ out[1].result["parentHash"] # genesis[1].hash

\* C4: the genesis header has the environment's block number minus one, no
\* gas used, a zero parent hash and the state root the tool computes for the
\* pre-state; and make_genesis does not call evaluate.
C4_GenesisHeader ==
    /\ GenesisBuilt =>
          /\ genesis[1].number = self.env.number - 1
          /\ genesis[1].gas_used = 0
          /\ genesis[1].parent_hash = ZeroHash
          /\ genesis[1].state_root = calc_state_root(to_json_alloc(self.pre), fork)
    /\ method = "make_genesis" =>
          /\ Calls("evaluate") = 0
          /\ t8n.input = None

\* make_genesis has returned a header
C4_Witness ==
    /\ method = "make_genesis"
    /\ pc = "genesis_built"
    /\ GenesisBuilt
    /\ self.env.number = 1

\* the number of transactions the scenario supplies
Supplied == IF self.txs = None THEN 0 ELSE Len(self.txs[1])

\* C5: make_blocks returns exactly one block; its transactions are the
\* supplied ones, each signed, in the supplied order, none dropped or added;
\* the tool was sent that list and the engine payload carries it.
C5_OneBlockAllTxs ==
    ret # None =>
        /\ Len(ret[1].blocks) = 1
        /\ LET block == ret[1].blocks[1]
           IN /\ Len(block.txs) = Supplied
              /\ \A i \in 1..Supplied :
                    /\ block.txs[i].tx = self.txs[1][i]
                    /\ block.txs[i] = with_signature_and_sender(self.txs[1][i])
              /\ t8n.input[1].txs = to_json(block.txs)
              /\ block.new_payload # None => block.new_payload[1].transactions = block.txs

\* a block was returned for two different transactions, with a payload
C5_Witness ==
    /\ ret # None
    /\ Supplied = 2
    /\ self.txs[1][1] # self.txs[1][2]
    /\ ret[1].blocks[1].new_payload # None

\* the environment of make_blocks
BlockEnv == env[1]

\* C6: coinbase, number, gas limit and timestamp of the block header are the
\* environment's, whatever the tool's result has under these keys; the
\* difficulty is the environment's when set, else the tool's
\* currentDifficulty.
C6_EnvironmentWins ==
    header # None =>
        /\ header[1].coinbase = Address(BlockEnv.coinbase)
        /\ header[1].number = BlockEnv.number
        /\ header[1].gas_limit = BlockEnv.gas_limit
        /\ header[1].timestamp = BlockEnv.timestamp
        /\ BlockEnv.coinbase = self.env.coinbase
        /\ BlockEnv.number = self.env.number
        /\ BlockEnv.gas_limit = self.env.gas_limit
        /\ BlockEnv.timestamp = self.env.timestamp
        /\ header[1].difficulty =
              IF BlockEnv.difficulty # None THEN BlockEnv.difficulty[1]
              ELSE ParseNumber(out[1].result["currentDifficulty"][1])

\* a header was made from a result that has other values under the
\* environment's keys, and a difficulty of its own
C6_Witness ==
    /\ header # None
    /\ BlockEnv.difficulty # None
    /\ {"miner", "number", "gasLimit", "timestamp", "currentDifficulty"}
          \subseteq DOMAIN out[1].result
    /\ ParseNumber(out[1].result["number"][1]) # BlockEnv.number
    /\ ParseNumber(out[1].result["currentDifficulty"][1]) # BlockEnv.difficulty[1]

\* C7: state root, receipts root, transactions root, gas used, base fee and
\* excess data gas of the block header are the tool's, never the
\* environment's; the ommers hash is the empty-ommers constant.
C7_ToolOwnedFields ==
    header # None =>
        LET result == out[1].result
        IN /\ header[1].state_root = result["stateRoot"][1]
           /\ header[1].receipt_root = result["receiptsRoot"][1]
           /\ header[1].transactions_root = result["txRoot"][1]
           /\ header[1].gas_used = ParseNumber(result["gasUsed"][1])
           /\ header[1].base_fee = NumberOrNone(Get(result, "currentBaseFee"))
           /\ header[1].excess_data_gas = NumberOrNone(Get(result, "currentExcessDataGas"))
           /\ header[1].ommers_hash = EmptyOmmersRoot

\* a header was made where the environment has a base fee and an excess
\* data gas other than the tool's
C7_Witness ==
    /\ header # None
    /\ BlockEnv.base_fee # None
    /\ BlockEnv.excess_data_gas # None
    /\ Get(out[1].result, "currentBaseFee") # None
    /\ BlockEnv.base_fee[1] # ParseNumber(out[1].result["currentBaseFee"][1])
    /\ BlockEnv.excess_data_gas[1] # ParseNumber(out[1].result["currentExcessDataGas"][1])

\* make_blocks has raised
BlocksFailed == pc = "failed" /\ method = "make_blocks"

\* C8, as stated: every failing run of make_blocks has obtained the traces
\* through get_traces before the error reaches the caller.
C8_EveryFailureTraced ==
    BlocksFailed => (Calls("get_traces") > 0 /\ exc.printed # None)

\* C8, amended: a failing run of make_blocks has obtained the traces exactly
\* when the failure is the post-state verifier's; a tool failure, a rejected
\* transaction and a failed header construction reach the caller without.
C8_OnlyVerifierFailureTraced ==
    BlocksFailed =>
        /\ exc.raised # None
        /\ exc.raised[1].kind = "post_mismatch" =>
              (Calls("get_traces") = 1 /\ exc.printed = Some(t8n.traces))
        /\ exc.raised[1].kind # "post_mismatch" =>
              (Calls("get_traces") = 0 /\ exc.printed = None)

\* the verifier's failure has reached the caller with the traces of the
\* evaluation fetched
C8_Witness ==
    /\ BlocksFailed
    /\ exc.raised[1].kind = "post_mismatch"
    /\ exc.printed # None
    /\ Len(exc.printed[1]) = 1

\* C9: get_traces is called at most once, by make_blocks, and only after
\* verify_post_alloc has raised; a run whose checks all pass never calls it.
C9_TracesOnlyOnVerifierFailure ==
    /\ Calls("get_traces") <= 1
    /\ Calls("get_traces") = 1 =>
          /\ method = "make_blocks"
          /\ exc.caught # None
          /\ exc.caught[1].kind = "post_mismatch"
          /\ PostMismatch
          /\ pc \in {"b_reraise", "failed"}
    /\ pc = "done" => Calls("get_traces") = 0

\* get_traces was called in a run whose verifier raised
C9_Witness ==
    /\ Calls("get_traces") = 1
    /\ exc.caught # None
    /\ pc = "failed"

\* a run has failed with the failure of a tool entry point
ToolFailed == pc = "failed" /\ exc.raised[1].kind = "tool_failure"

\* C10: evaluate and calc_state_root are each called at most once; a tool
\* failure reaches the caller as raised, the failing call is the last call
\* of the tool, and no check, header or block follows it.
C10_NoRetry ==
    /\ Calls("evaluate") <= 1
    /\ Calls("calc_state_root") <= 1
    /\ Calls("calc_withdrawals_root") <= 1
    /\ ToolFailed =>
          /\ exc.raised = Some(ToolFailure(t8n.calls[Len(t8n.calls)]))
          /\ exc.caught = None
          /\ exc.printed = None
          /\ out = None
          /\ header = None
          /\ ret = None
          /\ method = "make_genesis" => (~GenesisBuilt /\ txs = None)

\* evaluate has failed and the failure has reached the caller
C10_Witness ==
    /\ ToolFailed
    /\ exc.raised[1].detail = <<"evaluate">>
    /\ Calls("evaluate") = 1

\* C11: the returned block carries an engine payload exactly when hive is
\* not disabled; the payload is made from the header with its hash set, the
\* block's signed transactions and withdrawals, and the scenario's
\* engine_api_error_code, which is None (no error) unless the scenario sets
\* one.
C11_EnginePayload ==
    /\ pc \in {"b_return", "done"} => (built.new_payload # None <=> ~self.disable_hive)
    /\ built.new_payload # None =>
          LET payload == built.new_payload[1]
          IN /\ payload.header = header[1]
             /\ payload.header.hash = Some(HeaderHash(payload.header))
             /\ payload.transactions = txs[1]
             /\ payload.withdrawals = env[1].withdrawals
             /\ payload.error_code = self.engine_api_error_code
    /\ ret # None =>
          LET block == ret[1].blocks[1]
          IN /\ block.new_payload # None <=> ~self.disable_hive
             /\ block.new_payload # None =>
                   /\ block.new_payload[1].header = block.block_header
                   /\ block.new_payload[1].transactions = block.txs
                   /\ block.new_payload[1].withdrawals = block.withdrawals
                   /\ block.new_payload[1].error_code = self.engine_api_error_code

\* a block was returned with a payload whose error code is the default, no
\* error
C11_Witness ==
    /\ ret # None
    /\ ~self.disable_hive
    /\ self.engine_api_error_code = None
    /\ ret[1].blocks[1].new_payload # None
    /\ ret[1].blocks[1].new_payload[1].error_code = None

SecondRunEnded == prior # None /\ pc \in {"done", "failed"}

SameAllocHashedAndEvaluated ==
    \A i, j \in DOMAIN t8n.log :
        (t8n.log[i].entry = "calc_state_root" /\ t8n.log[j].entry = "evaluate") =>
            /\ t8n.log[i].input.alloc = t8n.log[j].input.alloc
            /\ t8n.log[i].input.alloc = to_json_alloc(self.pre)

\* C17: no step of make_genesis or make_blocks changes the scenario's env,
\* pre, post or txs; the adjusted environment and the signed transactions
\* are values of the call; and the allocation whose state root the genesis
\* carries is the allocation evaluate is given.
C17_ScenarioUnchanged ==
    [][/\ self' = self
       /\ SameAllocHashedAndEvaluated'
       /\ (env' # None /\ method' = "make_blocks") =>
              (/\ env'[1].parent_hash = genesis'[1].hash
               /\ self'.env.parent_hash = None)
       /\ txs' # None => txs' = Some(SignedTxs(self.txs))]_vars

\* make_blocks has returned with an environment and transactions of its own
\* that differ from the scenario's
C17_Witness ==
    /\ pc = "done"
    /\ env[1] # self.env
    /\ self.txs # None
    /\ Len(self.txs[1]) = 2
    /\ Len(txs[1]) = 2
    /\ env[1].parent_hash # self.env.parent_hash
    /\ Len(t8n.log) >= 2

\* the bytecode the scenario of a tag is written for
ScenarioCode(tag) ==
    IF tag = "valid_calls" THEN "datahash_single_valid_calls"
    ELSE IF tag = "repeated_calls" THEN "datahash_repeated_valid_calls"
    ELSE IF tag = "valid_invalid_calls" THEN "datahash_valid_invalid_calls"
    ELSE "datahash_varied_valid_calls"

\* C13: every scenario test_datahash_blob_versioned_hash yields receives a
\* pre-state in which the contract at each block's target address holds the
\* bytecode of that scenario: a write made for another scenario's pre-state
\* has not replaced it.
C13_OwnPreState ==
    filler.test = "test_datahash_blob_versioned_hash" =>
        \A k \in DOMAIN filler.yielded :
            \A i \in 0..(TOTAL_BLOCKS - 1) :
                filler.yielded[k].pre[BlockAddress(i)] = ScenarioCode(filler.yielded[k].tag)

Carries(tx, f) == tx[f] # None

\* C14: every transaction a generator has built, directly or by with_fields
\* on a template, carries exactly the fields its declared type requires:
\* type 0 and 1 gas_price and no fee-market or blob field, type 2 the two
\* fee-market fields and neither gas_price nor a blob field, type 5 the two
\* blob fields.
C14_ExactFields ==
    filler.test \in Generators =>
        \A k \in DOMAIN filler.txs :
            LET tx == filler.txs[k]
            IN /\ tx.ty \in {Some(0), Some(1)} =>
                      /\ Carries(tx, "gas_price")
                      /\ \A f \in {"max_fee_per_gas", "max_priority_fee_per_gas",
                                   "max_fee_per_data_gas", "blob_versioned_hashes"} :
                             ~Carries(tx, f)
               /\ tx.ty = Some(2) =>
                      /\ Carries(tx, "max_fee_per_gas")
                      /\ Carries(tx, "max_priority_fee_per_gas")
                      /\ \A f \in {"gas_price", "max_fee_per_data_gas",
                                   "blob_versioned_hashes"} :
                             ~Carries(tx, f)
               /\ tx.ty = Some(BLOB_TX_TYPE) =>
                      /\ Carries(tx, "max_fee_per_data_gas")
                      /\ Carries(tx, "blob_versioned_hashes")

\* C15: every type 5 transaction a generator or the fixture has built has a
\* non-empty blob_versioned_hashes whose every entry starts with the version
\* tag.
C15_VersionedHashes ==
    filler.test \in Generators =>
        \A k \in DOMAIN filler.txs :
            LET tx == filler.txs[k]
            IN tx.ty = Some(BLOB_TX_TYPE) =>
                   /\ Carries(tx, "blob_versioned_hashes")
                   /\ Len(tx.blob_versioned_hashes[1]) > 0
                   /\ \A j \in DOMAIN tx.blob_versioned_hashes[1] :
                          tx.blob_versioned_hashes[1][j].version = BLOB_COMMITMENT_VERSION_KZG

====
